---- MODULE Spec2Model ----
(***************************************************************************)
(* Model of the aggregation engine of rust-code-analysis-tui:             *)
(* src/analysis.rs (MetricsSummary::summarize, merge_with and the Merge   *)
(* impls) over the report model of src/metrics.rs.                        *)
(*                                                                         *)
(* Numbers.  Every metric value is an f64 in the source.  The model draws *)
(* metric values from small sets of integers; sums, minima and maxima of  *)
(* integers are integers, so those fields stay integers.  The one place   *)
(* the code divides is update_average, whose results are kept as exact    *)
(* fractions [num, den] in lowest terms.  Floating-point rounding is not  *)
(* modelled.                                                              *)
(*                                                                         *)
(* Options.  Option<T> is a sequence of length at most one: None is <<>>  *)
(* and Some(v) is <<v>>.                                                  *)
(***************************************************************************)
EXTENDS Integers, Sequences, FiniteSets, TLC

\* Longest prefix of json_data the fold is followed over.
MaxReports == 3

\* Longest prefix followed over the reports of the example of spec section 8.
MaxExample == 4

\* f64::MAX, the sentinel of unwrap_or(f64::MAX): a value above every metric
\* value of the model.  f64::MIN is its negation, as in Rust.
F64_MAX == 1000000
F64_MIN == -F64_MAX

---------------------------------------------------------------------------
\* Option<T>

None == <<>>
Some(v) == <<v>>
is_some(o) == o # <<>>
is_none(o) == o = <<>>
unwrap(o) == o[1]
unwrap_or(o, d) == IF o = <<>> THEN d ELSE o[1]

\* f64::min / f64::max on the model's values
min(a, b) == IF a <= b THEN a ELSE b
max(a, b) == IF a >= b THEN a ELSE b

---------------------------------------------------------------------------
\* Exact fractions, for the quotient computed by update_average.

Abs(x) == IF x < 0 THEN -x ELSE x

RECURSIVE Gcd(_, _)
Gcd(a, b) == IF b = 0 THEN a ELSE Gcd(b, a % b)

\* n / d for d > 0, in lowest terms
Frac(n, d) ==
    LET g == Gcd(Abs(n), d)
    IN  [num |-> n \div g, den |-> d \div g]

Zero == Frac(0, 1)

---------------------------------------------------------------------------
\* src/analysis.rs: update_average, Countable

\* update_average that leaves the mean alone when the report omits the field
update_average_skip(old, count, new) ==
    IF new = <<>> THEN old
    ELSE LET o == unwrap_or(old, Zero)
         IN  Some(Frac(o.num * count + unwrap(new) * o.den, o.den * (count + 1)))

\* Some(((old.unwrap_or(0.0) * count as f64) + new.unwrap_or(0.0)) / (count as f64 + 1.0))
\* old is an Option of a fraction, new an Option of a report value.
update_average(old, count, new) ==
    LET o == unwrap_or(old, Zero)
        n == unwrap_or(new, 0)
    IN  Some(Frac(o.num * count + n * o.den, o.den * (count + 1)))

\* add_count with the count assigned instead of incremented
add_count_assign(s) == [s EXCEPT !.count = 1]

\* Countable::add_count, the same body for every summary type
add_count(s) == [s EXCEPT !.count = @ + 1]

\* Option::or
or(a, b) == IF is_some(a) THEN a ELSE b

---------------------------------------------------------------------------
\* MetricValuesSummary (nargs)

MetricValuesSummary_default ==
    [total_functions |-> None, total_closures |-> None,
     average_functions |-> None, average_closures |-> None,
     total |-> None, average |-> None,
     functions_min |-> None, functions_max |-> None,
     closures_min |-> None, closures_max |-> None,
     count |-> 0]

MetricValuesSummary_update(s, m) ==
    [s EXCEPT
       !.total_functions = Some(unwrap_or(s.total_functions, 0) + unwrap_or(m.total_functions, 0)),
       !.total_closures = Some(unwrap_or(s.total_closures, 0) + unwrap_or(m.total_closures, 0)),
       !.total = Some(unwrap_or(s.total, 0) + unwrap_or(m.total, 0)),
       !.average_functions = update_average(s.average_functions, s.count, m.average_functions),
       !.average_closures = update_average(s.average_closures, s.count, m.average_closures),
       !.average = update_average(s.average, s.count, m.average),
       !.functions_min = Some(min(unwrap_or(s.functions_min, F64_MAX), unwrap_or(m.functions_min, F64_MAX))),
       !.functions_max = Some(max(unwrap_or(s.functions_max, F64_MIN), unwrap_or(m.functions_max, F64_MIN))),
       !.closures_min = Some(min(unwrap_or(s.closures_min, F64_MAX), unwrap_or(m.closures_min, F64_MAX))),
       !.closures_max = Some(max(unwrap_or(s.closures_max, F64_MIN), unwrap_or(m.closures_max, F64_MIN)))]

---------------------------------------------------------------------------
\* BasicSummary (nexits, cognitive, cyclomatic)

BasicSummary_default == [sum |-> 0, average |-> 0, min |-> 0, max |-> 0, count |-> 0]

BasicSummary_update(s, m) ==
    [s EXCEPT
       !.sum = s.sum + unwrap_or(m.sum, 0),
       !.average = s.average + unwrap_or(m.average, 0),
       !.min = min(s.min, unwrap_or(m.min, F64_MAX)),
       !.max = max(s.max, unwrap_or(m.max, F64_MIN))]

---------------------------------------------------------------------------
\* HalsteadSummary.  The summary field is spelled estimated_program_lenght
\* in the source; it accumulates the metric's estimated_program_length.

HalsteadSummary_default ==
    [n1 |-> 0, n2 |-> 0, volume |-> 0, purity_ratio |-> 0, bugs |-> 0,
     difficulty |-> 0, estimated_program_lenght |-> 0, vocabulary |-> 0,
     level |-> 0, count |-> 0]

HalsteadSummary_update(s, m) ==
    [s EXCEPT
       !.n1 = s.n1 + unwrap_or(m.n1, 0),
       !.n2 = s.n2 + unwrap_or(m.n2, 0),
       !.volume = s.volume + unwrap_or(m.volume, 0),
       !.bugs = s.bugs + unwrap_or(m.bugs, 0),
       !.difficulty = s.difficulty + unwrap_or(m.difficulty, 0),
       !.estimated_program_lenght =
           s.estimated_program_lenght + unwrap_or(m.estimated_program_length, 0),
       !.vocabulary = s.vocabulary + unwrap_or(m.vocabulary, 0),
       !.level = s.level + unwrap_or(m.level, 0),
       !.purity_ratio = s.purity_ratio + unwrap_or(m.purity_ratio, 0)]

---------------------------------------------------------------------------
\* LocSummary

LocSummary_default ==
    [sloc |-> 0, ploc |-> 0, count |-> 0, lloc |-> 0, cloc |-> 0, blank |-> 0,
     sloc_average |-> 0, ploc_average |-> 0, lloc_average |-> 0,
     cloc_average |-> 0, blank_average |-> 0,
     sloc_min |-> 0, sloc_max |-> 0, cloc_min |-> 0, cloc_max |-> 0,
     ploc_min |-> 0, ploc_max |-> 0, lloc_min |-> 0, lloc_max |-> 0,
     blank_min |-> 0, blank_max |-> 0]

\* if s.x_min == 0.0 { m.x_min.unwrap_or(0.0) } else { s.x_min.min(m.x_min.unwrap_or(0.0)) }
loc_min(s_min, m_min) ==
    IF s_min = 0 THEN unwrap_or(m_min, 0) ELSE min(s_min, unwrap_or(m_min, 0))

\* s.x_max.max(m.x_max.unwrap_or(0.0))
loc_max(s_max, m_max) == max(s_max, unwrap_or(m_max, 0))

\* the closure with sloc assigned instead of accumulated
LocSummary_update_assign(s, m) ==
    [s EXCEPT !.sloc = unwrap_or(m.sloc, 0), !.ploc = s.ploc + unwrap_or(m.ploc, 0)]

\* The closure assigns neither lloc, cloc nor blank.
LocSummary_update(s, m) ==
    [s EXCEPT
       !.sloc = s.sloc + unwrap_or(m.sloc, 0),
       !.ploc = s.ploc + unwrap_or(m.ploc, 0),
       !.sloc_average = s.sloc_average + unwrap_or(m.sloc_average, 0),
       !.ploc_average = s.ploc_average + unwrap_or(m.ploc_average, 0),
       !.lloc_average = s.lloc_average + unwrap_or(m.lloc_average, 0),
       !.cloc_average = s.cloc_average + unwrap_or(m.cloc_average, 0),
       !.blank_average = s.blank_average + unwrap_or(m.blank_average, 0),
       !.sloc_min = loc_min(s.sloc_min, m.sloc_min),
       !.ploc_min = loc_min(s.ploc_min, m.ploc_min),
       !.lloc_min = loc_min(s.lloc_min, m.lloc_min),
       !.cloc_min = loc_min(s.cloc_min, m.cloc_min),
       !.blank_min = loc_min(s.blank_min, m.blank_min),
       !.sloc_max = loc_max(s.sloc_max, m.sloc_max),
       !.ploc_max = loc_max(s.ploc_max, m.ploc_max),
       !.lloc_max = loc_max(s.lloc_max, m.lloc_max),
       !.cloc_max = loc_max(s.cloc_max, m.cloc_max),
       !.blank_max = loc_max(s.blank_max, m.blank_max)]

---------------------------------------------------------------------------
\* NomSummary, MiSummary, AbcSummary

NomSummary_default == [functions |-> 0, closures |-> 0, total |-> 0, count |-> 0]

NomSummary_update(s, m) ==
    [s EXCEPT
       !.functions = s.functions + unwrap_or(m.functions, 0),
       !.closures = s.closures + unwrap_or(m.closures, 0),
       !.total = s.total + unwrap_or(m.total, 0)]

MiSummary_default == [mi_original |-> 0, mi_sei |-> 0, mi_visual_studio |-> 0, count |-> 0]

MiSummary_update(s, m) ==
    [s EXCEPT
       !.mi_original = s.mi_original + unwrap_or(m.mi_original, 0),
       !.mi_sei = s.mi_sei + unwrap_or(m.mi_sei, 0),
       !.mi_visual_studio = s.mi_visual_studio + unwrap_or(m.mi_visual_studio, 0)]

AbcSummary_default == [assignments |-> 0, branches |-> 0, conditions |-> 0, count |-> 0]

AbcSummary_update(s, m) ==
    [s EXCEPT
       !.assignments = s.assignments + unwrap_or(m.assignments, 0),
       !.branches = s.branches + unwrap_or(m.branches, 0),
       !.conditions = s.conditions + unwrap_or(m.conditions, 0)]

---------------------------------------------------------------------------
\* merge_with<T, M, F> and the Merge impls.  The type parameter T of
\* merge_with is passed as the name of the summary type: default_of(T) is
\* T::default() and updater(T, s, m) the closure the impl for T passes.

default_of(T) ==
    CASE T = "MetricValuesSummary" -> MetricValuesSummary_default
      [] T = "BasicSummary" -> BasicSummary_default
      [] T = "HalsteadSummary" -> HalsteadSummary_default
      [] T = "LocSummary" -> LocSummary_default
      [] T = "NomSummary" -> NomSummary_default
      [] T = "MiSummary" -> MiSummary_default
      [] T = "AbcSummary" -> AbcSummary_default

updater(T, s, m) ==
    CASE T = "MetricValuesSummary" -> MetricValuesSummary_update(s, m)
      [] T = "BasicSummary" -> BasicSummary_update(s, m)
      [] T = "HalsteadSummary" -> HalsteadSummary_update(s, m)
      [] T = "LocSummary" -> LocSummary_update(s, m)
      [] T = "NomSummary" -> NomSummary_update(s, m)
      [] T = "MiSummary" -> MiSummary_update(s, m)
      [] T = "AbcSummary" -> AbcSummary_update(s, m)

\* merge_with that counts a report whether or not it supplies the category
merge_with_always(current, metric, T) ==
    IF is_some(metric)
      THEN Some(add_count(updater(T, unwrap_or(current, default_of(T)), unwrap(metric))))
      ELSE Some(add_count(unwrap_or(current, default_of(T))))

\* metric.as_ref().map(|m| { let mut summary = current.unwrap_or_default();
\*     updater(&mut summary, m); summary.add_count(); summary }).or(current)
merge_with(current, metric, T) ==
    or(IF is_some(metric)
         THEN Some(add_count(updater(T, unwrap_or(current, default_of(T)), unwrap(metric))))
         ELSE None,
       current)

MetricValuesSummary_merge(current, metric) == merge_with(current, metric, "MetricValuesSummary")
BasicSummary_merge(current, metric) == merge_with(current, metric, "BasicSummary")
HalsteadSummary_merge(current, metric) == merge_with(current, metric, "HalsteadSummary")
LocSummary_merge(current, metric) == merge_with(current, metric, "LocSummary")
NomSummary_merge(current, metric) == merge_with(current, metric, "NomSummary")
MiSummary_merge(current, metric) == merge_with(current, metric, "MiSummary")
AbcSummary_merge(current, metric) == merge_with(current, metric, "AbcSummary")

---------------------------------------------------------------------------
\* MetricsSummary

\* a Default that materializes an accumulator
MetricsSummary_default_some ==
    [nargs |-> None, nexits |-> None, cognitive |-> None, cyclomatic |-> None,
     halstead |-> None, loc |-> None, nom |-> Some(NomSummary_default),
     mi |-> None, abc |-> None]

\* #[derive(Default)]: every category None
MetricsSummary_default ==
    [nargs |-> None, nexits |-> None, cognitive |-> None, cyclomatic |-> None,
     halstead |-> None, loc |-> None, nom |-> None, mi |-> None, abc |-> None]

\* The fold closure of summarize, applied to one report's metrics.
fold_metrics(s, metrics) ==
    [nargs |-> MetricValuesSummary_merge(s.nargs, metrics.nargs),
     nexits |-> BasicSummary_merge(s.nexits, metrics.nexits),
     cognitive |-> BasicSummary_merge(s.cognitive, metrics.cognitive),
     cyclomatic |-> BasicSummary_merge(s.cyclomatic, metrics.cyclomatic),
     halstead |-> HalsteadSummary_merge(s.halstead, metrics.halstead),
     loc |-> LocSummary_merge(s.loc, metrics.loc),
     nom |-> NomSummary_merge(s.nom, metrics.nom),
     mi |-> MiSummary_merge(s.mi, metrics.mi),
     abc |-> AbcSummary_merge(s.abc, metrics.abc)]

\* One element of json_data.iter().flat_map(|d| d.metrics.as_ref()):
\* a report without metrics yields nothing to fold.
fold_report(s, d) ==
    IF is_some(d.metrics) THEN fold_metrics(s, unwrap(d.metrics)) ELSE s

\* MetricsSummary::summarize(json_data): the left fold from Default::default()
RECURSIVE summarize_from(_, _)
summarize_from(s, json_data) ==
    IF json_data = <<>> THEN s
    ELSE summarize_from(fold_report(s, Head(json_data)), Tail(json_data))

summarize(json_data) == summarize_from(MetricsSummary_default, json_data)

---------------------------------------------------------------------------
\* src/analysis.rs: the Detailed impls, add_details! and create_summary_table.
\* A row is a pair <<key cell, value cell>> of strings; the styles and the
\* widget around the rows are not modelled.

\* format!("{:.2}", v) of the fraction q: q rounded to hundredths (to
\* nearest, ties to even), printed with two decimals.
fixed2_frac(q) ==
    LET a == Abs(q.num) * 100
        lo == a \div q.den
        rem2 == 2 * (a % q.den)
        h == IF rem2 > q.den \/ (rem2 = q.den /\ lo % 2 = 1) THEN lo + 1 ELSE lo
        c == h % 100
    IN  (IF q.num < 0 THEN "-" ELSE "") \o ToString(h \div 100) \o "."
          \o (IF c < 10 THEN "0" ELSE "") \o ToString(c)

\* format!("{:.2}", v) of an integer-valued f64
fixed2(v) == fixed2_frac(Frac(v, 1))

\* f64::to_string of an integer-valued f64 and usize::to_string
to_string(v) == ToString(v)

\* opt.map_or("N/A".into(), |v| v.to_string())
map_or_to_string(opt) == IF is_some(opt) THEN to_string(unwrap(opt)) ELSE "N/A"

\* opt.map_or("N/A".into(), |v| format!("{:.2}", v)), opt a mean kept as a fraction
map_or_fixed2(opt) == IF is_some(opt) THEN fixed2_frac(unwrap(opt)) ELSE "N/A"

MetricValuesSummary_details(self) ==
    << <<"Total Functions", map_or_to_string(self.total_functions)>>,
       <<"Total Closures", map_or_to_string(self.total_closures)>>,
       <<"Avg Functions", map_or_fixed2(self.average_functions)>>,
       <<"Avg Closures", map_or_fixed2(self.average_closures)>>,
       <<"Total", map_or_to_string(self.total)>>,
       <<"Average", map_or_fixed2(self.average)>>,
       <<"Min Functions", map_or_to_string(self.functions_min)>>,
       <<"Max Functions", map_or_to_string(self.functions_max)>>,
       <<"Min Closures", map_or_to_string(self.closures_min)>>,
       <<"Max Closures", map_or_to_string(self.closures_max)>>,
       <<"Count", to_string(self.count)>> >>

BasicSummary_details(self) ==
    << <<"Sum", fixed2(self.sum)>>,
       <<"Average", fixed2(self.average)>>,
       <<"Min", fixed2(self.min)>>,
       <<"Max", fixed2(self.max)>>,
       <<"Count", to_string(self.count)>> >>

HalsteadSummary_details(self) ==
    << <<"n1", fixed2(self.n1)>>,
       <<"n2", fixed2(self.n2)>>,
       <<"purity_ratio", fixed2(self.purity_ratio)>>,
       <<"Bugs", fixed2(self.bugs)>>,
       <<"Estimated Program Lenght", fixed2(self.estimated_program_lenght)>>,
       <<"Vocabulary", fixed2(self.vocabulary)>>,
       <<"Difficulty", fixed2(self.difficulty)>>,
       <<"Level", fixed2(self.level)>>,
       <<"Volume", fixed2(self.volume)>>,
       <<"Count", to_string(self.count)>> >>

\* The vec! holds no row for count.
LocSummary_details(self) ==
    << <<"SLOC", fixed2(self.sloc)>>,
       <<"PLOC", fixed2(self.ploc)>>,
       <<"LLOC", fixed2(self.lloc)>>,
       <<"CLOC", fixed2(self.cloc)>>,
       <<"Blank", fixed2(self.blank)>>,
       <<"SLOC Avg", fixed2(self.sloc_average)>>,
       <<"PLOC Avg", fixed2(self.ploc_average)>>,
       <<"LLOC Avg", fixed2(self.lloc_average)>>,
       <<"CLOC Avg", fixed2(self.cloc_average)>>,
       <<"Blank Avg", fixed2(self.blank_average)>>,
       <<"SLOC Min", fixed2(self.sloc_min)>>,
       <<"SLOC Max", fixed2(self.sloc_max)>>,
       <<"CLOC Min", fixed2(self.cloc_min)>>,
       <<"CLOC Max", fixed2(self.cloc_max)>>,
       <<"PLOC Min", fixed2(self.ploc_min)>>,
       <<"PLOC Max", fixed2(self.ploc_max)>>,
       <<"LLOC Min", fixed2(self.lloc_min)>>,
       <<"LLOC Max", fixed2(self.lloc_max)>>,
       <<"Blank Min", fixed2(self.blank_min)>>,
       <<"Blank Max", fixed2(self.blank_max)>> >>

NomSummary_details(self) ==
    << <<"Functions", fixed2(self.functions)>>,
       <<"Closures", fixed2(self.closures)>>,
       <<"Total", fixed2(self.total)>>,
       <<"Count", to_string(self.count)>> >>

MiSummary_details(self) ==
    << <<"MI Original", fixed2(self.mi_original)>>,
       <<"MI SEI", fixed2(self.mi_sei)>>,
       <<"MI VS", fixed2(self.mi_visual_studio)>>,
       <<"Count", to_string(self.count)>> >>

AbcSummary_details(self) ==
    << <<"Assignments", fixed2(self.assignments)>>,
       <<"Branches", fixed2(self.branches)>>,
       <<"Conditions", fixed2(self.conditions)>>,
       <<"Count", to_string(self.count)>> >>

\* add_details!(rows, title, option), details the value of metric.details()
\* when the option is Some
add_details(rows, title, option, details) ==
    IF is_some(option)
      THEN Append(rows, <<title, "">>) \o details
      ELSE Append(rows, <<title, "N/A">>)

\* the rows of create_summary_table(summary)
create_summary_table(s) ==
    LET d(o, kind) ==
            IF is_none(o) THEN <<>>
            ELSE CASE kind = "MetricValuesSummary" -> MetricValuesSummary_details(unwrap(o))
                   [] kind = "BasicSummary" -> BasicSummary_details(unwrap(o))
                   [] kind = "HalsteadSummary" -> HalsteadSummary_details(unwrap(o))
                   [] kind = "LocSummary" -> LocSummary_details(unwrap(o))
                   [] kind = "NomSummary" -> NomSummary_details(unwrap(o))
                   [] kind = "MiSummary" -> MiSummary_details(unwrap(o))
                   [] kind = "AbcSummary" -> AbcSummary_details(unwrap(o))
        r1 == add_details(<<>>, "NArgs", s.nargs, d(s.nargs, "MetricValuesSummary"))
        r2 == add_details(r1, "NExits", s.nexits, d(s.nexits, "BasicSummary"))
        r3 == add_details(r2, "Cognitive Complexity", s.cognitive, d(s.cognitive, "BasicSummary"))
        r4 == add_details(r3, "Cyclomatic Complexity", s.cyclomatic, d(s.cyclomatic, "BasicSummary"))
        r5 == add_details(r4, "Halstead Metrics", s.halstead, d(s.halstead, "HalsteadSummary"))
        r6 == add_details(r5, "Lines of Code", s.loc, d(s.loc, "LocSummary"))
        r7 == add_details(r6, "Number of Methods", s.nom, d(s.nom, "NomSummary"))
        r8 == add_details(r7, "Maintainability Index", s.mi, d(s.mi, "MiSummary"))
        r9 == add_details(r8, "ABC Complexity", s.abc, d(s.abc, "AbcSummary"))
    IN  r9

---------------------------------------------------------------------------
\* src/metrics.rs: the report model.  Every field of every category is an
\* Option<f64>.  The records below are the categories with every field
\* absent; the reports of the model set some of the fields.

MetricValues_none ==
    [total_functions |-> None, total_closures |-> None,
     average_functions |-> None, average_closures |-> None,
     total |-> None, average |-> None,
     functions_min |-> None, functions_max |-> None,
     closures_min |-> None, closures_max |-> None]

BasicMetric_none == [sum |-> None, average |-> None, min |-> None, max |-> None]

\* The fields HalsteadSummary reads; N1, N2, length, effort and time are
\* decoded and never read.
Halstead_none ==
    [n1 |-> None, n2 |-> None, estimated_program_length |-> None,
     purity_ratio |-> None, vocabulary |-> None, volume |-> None,
     difficulty |-> None, level |-> None, bugs |-> None]

Loc_none ==
    [sloc |-> None, ploc |-> None, lloc |-> None, cloc |-> None, blank |-> None,
     sloc_average |-> None, ploc_average |-> None, lloc_average |-> None,
     cloc_average |-> None, blank_average |-> None,
     sloc_min |-> None, sloc_max |-> None, cloc_min |-> None, cloc_max |-> None,
     ploc_min |-> None, ploc_max |-> None, lloc_min |-> None, lloc_max |-> None,
     blank_min |-> None, blank_max |-> None]

\* The fields NomSummary reads; the averages and extrema of Nom are decoded
\* and never read.
Nom_none == [functions |-> None, closures |-> None, total |-> None]

Mi_none == [mi_original |-> None, mi_sei |-> None, mi_visual_studio |-> None]

\* The fields AbcSummary reads.
Abc_none == [assignments |-> None, branches |-> None, conditions |-> None]

\* Metrics: wmc, npm and npa are decoded too, and summarize never reads them.
Metrics_none ==
    [nargs |-> None, nexits |-> None, cognitive |-> None, cyclomatic |-> None,
     halstead |-> None, loc |-> None, nom |-> None, mi |-> None, abc |-> None]

\* JsonData: summarize reads the root's metrics alone.
JsonData(metrics) == [metrics |-> metrics]

---------------------------------------------------------------------------
\* The reports the model folds.

Nargs1 ==
    [total_functions |-> Some(3), total_closures |-> Some(1),
     average_functions |-> Some(2), average_closures |-> Some(1),
     total |-> Some(4), average |-> Some(1),
     functions_min |-> Some(1), functions_max |-> Some(3),
     closures_min |-> Some(0), closures_max |-> Some(1)]
Nargs2 ==
    [total_functions |-> Some(6), total_closures |-> Some(0),
     average_functions |-> Some(3), average_closures |-> Some(0),
     total |-> Some(6), average |-> Some(2),
     functions_min |-> Some(2), functions_max |-> Some(4),
     closures_min |-> Some(0), closures_max |-> Some(0)]
\* nargs with the averages and the extrema of closures missing
Nargs3 ==
    [MetricValues_none EXCEPT
       !.total_functions = Some(5), !.total = Some(5),
       !.functions_min = Some(5), !.functions_max = Some(5)]

Basic1 == [sum |-> Some(4), average |-> Some(2), min |-> Some(1), max |-> Some(3)]
Basic2 == [sum |-> Some(9), average |-> Some(4), min |-> Some(3), max |-> Some(6)]
\* zero and negative values
Basic3 == [sum |-> Some(-3), average |-> Some(-1), min |-> Some(-2), max |-> Some(-1)]
\* the extrema missing
Basic4 == [BasicMetric_none EXCEPT !.sum = Some(2)]

Halstead1 ==
    [n1 |-> Some(1), n2 |-> Some(2), estimated_program_length |-> Some(3),
     purity_ratio |-> Some(4), vocabulary |-> Some(5), volume |-> Some(6),
     difficulty |-> Some(7), level |-> Some(8), bugs |-> Some(9)]
Halstead2 == [Halstead_none EXCEPT !.n1 = Some(2), !.volume = Some(10)]

\* the three reports of the example of spec section 8
LocSloc(v) == [Loc_none EXCEPT !.sloc = Some(v)]
Loc1 ==
    [sloc |-> Some(9), ploc |-> Some(7), lloc |-> Some(5), cloc |-> Some(2),
     blank |-> Some(1),
     sloc_average |-> Some(4), ploc_average |-> Some(3), lloc_average |-> Some(2),
     cloc_average |-> Some(1), blank_average |-> Some(1),
     sloc_min |-> Some(5), sloc_max |-> Some(9), cloc_min |-> Some(1),
     cloc_max |-> Some(2), ploc_min |-> Some(3), ploc_max |-> Some(7),
     lloc_min |-> Some(2), lloc_max |-> Some(5), blank_min |-> Some(1),
     blank_max |-> Some(1)]
Loc2 ==
    [sloc |-> Some(6), ploc |-> Some(4), lloc |-> Some(3), cloc |-> Some(1),
     blank |-> Some(1),
     sloc_average |-> Some(2), ploc_average |-> Some(1), lloc_average |-> Some(1),
     cloc_average |-> Some(1), blank_average |-> Some(1),
     sloc_min |-> Some(3), sloc_max |-> Some(6), cloc_min |-> Some(1),
     cloc_max |-> Some(1), ploc_min |-> Some(2), ploc_max |-> Some(4),
     lloc_min |-> Some(1), lloc_max |-> Some(3), blank_min |-> Some(1),
     blank_max |-> Some(1)]
\* a file whose minima are zero
Loc3 ==
    [Loc_none EXCEPT
       !.sloc = Some(1), !.sloc_min = Some(0), !.sloc_max = Some(1),
       !.cloc_min = Some(0), !.cloc_max = Some(0)]

Nom1 == [functions |-> Some(2), closures |-> Some(1), total |-> Some(3)]
Nom2 == [Nom_none EXCEPT !.functions = Some(4)]
Mi1 == [mi_original |-> Some(90), mi_sei |-> Some(60), mi_visual_studio |-> Some(50)]
Abc1 == [assignments |-> Some(3), branches |-> Some(2), conditions |-> Some(1)]

OneCategory ==
    {[Metrics_none EXCEPT !.nargs = Some(v)] : v \in {Nargs1, Nargs2, Nargs3}}
    \cup {[Metrics_none EXCEPT !.cyclomatic = Some(v)] : v \in {Basic1, Basic2, Basic3, Basic4}}
    \cup {[Metrics_none EXCEPT !.loc = Some(v)] :
            v \in {LocSloc(10), LocSloc(20), LocSloc(30), Loc1, Loc2, Loc3}}
    \cup {[Metrics_none EXCEPT !.halstead = Some(Halstead2)],
          [Metrics_none EXCEPT !.nom = Some(Nom2)]}

SeveralCategories ==
    {[nargs |-> Some(Nargs1), nexits |-> Some(Basic1), cognitive |-> Some(Basic2),
      cyclomatic |-> Some(Basic1), halstead |-> Some(Halstead1), loc |-> Some(Loc1),
      nom |-> Some(Nom1), mi |-> Some(Mi1), abc |-> Some(Abc1)],
     [Metrics_none EXCEPT !.nexits = Some(Basic2), !.cognitive = Some(Basic3),
                          !.mi = Some(Mi1), !.abc = Some(Abc1)]}

\* A report whose metrics are absent, one whose metrics hold no category,
\* and the reports above.
Reports ==
    {JsonData(None), JsonData(Some(Metrics_none))}
    \cup {JsonData(Some(m)) : m \in OneCategory \cup SeveralCategories}

---------------------------------------------------------------------------
\* The fold of MetricsSummary::summarize as a state machine.  folded is the
\* prefix of json_data the iterator has yielded so far, summary the
\* accumulator of the fold after that prefix.  Any prefix may be the whole
\* input, so every state is also a state summarize can return in.

VARIABLES folded, summary

\* The state of AnalyzeCommand::execute and analyze_directory (see below).
VARIABLES path_is_dir, pc, root_is_dir, walked, json_files, loaded, arrived,
          analysis, details, analysis_before

\* The state of main and run_app (see below).
VARIABLES app_pc, navigator, raw_mode, alternate_screen, quit, cleanup_ran, error

fvars == <<folded, summary>>
avars == <<path_is_dir, pc, root_is_dir, walked, json_files, loaded, arrived,
           analysis, details, analysis_before>>
appvars == <<app_pc, navigator, raw_mode, alternate_screen, quit, cleanup_ran, error>>
vars == <<fvars, avars, appvars>>

\* No command has run: run_app's details and analysis are None.
NoCommand ==
    /\ pc = "idle"
    /\ root_is_dir = None
    /\ walked = <<>>
    /\ json_files = <<>>
    /\ loaded = <<>>
    /\ arrived = <<>>
    /\ analysis = None
    /\ details = None
    /\ analysis_before = None

\* main has not started.
NoApp ==
    /\ app_pc = "none"
    /\ navigator = None
    /\ raw_mode = FALSE
    /\ alternate_screen = FALSE
    /\ quit = FALSE
    /\ cleanup_ran = FALSE
    /\ error = None

Init ==
    /\ folded = <<>>
    /\ summary = MetricsSummary_default
    /\ path_is_dir = TRUE
    /\ NoCommand
    /\ NoApp

\* The iterator yields a report of R that carries metrics: the closure runs.
FoldMetricsOf(R, n) ==
    \E d \in R :
        /\ Len(folded) < n
        /\ is_some(d.metrics)
        /\ summary' = fold_metrics(summary, unwrap(d.metrics))
        /\ folded' = Append(folded, d)
        /\ UNCHANGED <<avars, appvars>>

\* The iterator passes a report of R without metrics: flat_map yields nothing.
SkipReportOf(R, n) ==
    \E d \in R :
        /\ Len(folded) < n
        /\ is_none(d.metrics)
        /\ folded' = Append(folded, d)
        /\ UNCHANGED <<summary, avars, appvars>>

FoldMetrics == FoldMetricsOf(Reports, MaxReports)
SkipReport == SkipReportOf(Reports, MaxReports)

Next == FoldMetrics \/ SkipReport

Spec == Init /\ [][Next]_vars

\* The same fold over the reports of the example of spec section 8: the
\* three reports with loc.sloc = 10, 20, 30 and reports without loc.
ExampleReports ==
    {JsonData(Some([Metrics_none EXCEPT !.loc = Some(LocSloc(v))])) : v \in {10, 20, 30}}
    \cup {JsonData(None), JsonData(Some(Metrics_none)),
          JsonData(Some([Metrics_none EXCEPT !.nargs = Some(Nargs1)]))}

ExampleFoldMetrics == FoldMetricsOf(ExampleReports, MaxExample)
ExampleSkipReport == SkipReportOf(ExampleReports, MaxExample)

NextExample == ExampleFoldMetrics \/ ExampleSkipReport

SpecExample == Init /\ [][NextExample]_vars

---------------------------------------------------------------------------
\* src/command.rs and src/analysis.rs: the commands and analyze_directory.
\*
\* path_is_dir is what Path::is_dir answers for the selected path right now;
\* the file system may change it between two checks.  pc is the position of
\* the command: "idle" (no command running), "called" (AnalyzeCommand is
\* about to call analyze_directory), "loading" (the parallel load tasks run),
\* "failed" (execute returned Err).  root_is_dir is the answer is_dir gave
\* inside the latest analyze_directory call, walked the entries WalkDir
\* yielded in it, json_files the files kept by the filter, loaded the result
\* of each load task (None while the task has not finished), arrived the
\* order in which the tasks finished.  analysis and details are the two
\* tables of run_app, a table being its sequence of rows; analysis_before is the
\* analysis that was stored when the latest call began.  After a call,
\* folded and summary hold the data and the summary of that call.

MaxFiles == 2

\* What a directory walk can yield: ok is Result::ok of the entry, json
\* whether it is a file with the extension json, content the outcome of
\* read_to_string (None: the read fails) holding the outcome of
\* serde_json::from_str (None: the text is not a JsonData).
WalkError == [ok |-> FALSE, json |-> FALSE, content |-> None]
NotJson == [ok |-> TRUE, json |-> FALSE, content |-> Some(None)]
Unreadable == [ok |-> TRUE, json |-> TRUE, content |-> None]
Malformed == [ok |-> TRUE, json |-> TRUE, content |-> Some(None)]
ValidA == [ok |-> TRUE, json |-> TRUE,
           content |-> Some(Some(JsonData(Some([Metrics_none EXCEPT !.loc = Some(Loc3)]))))]
ValidB == [ok |-> TRUE, json |-> TRUE,
           content |-> Some(Some(JsonData(Some([Metrics_none EXCEPT !.loc = Some(Loc2),
                                                                     !.nom = Some(Nom1)]))))]
Entries == {WalkError, NotJson, Unreadable, Malformed, ValidA, ValidB}

BoundedSeq(S, n) == UNION {[1..k -> S] : k \in 0..n}
Walks == BoundedSeq(Entries, MaxFiles)

\* the precondition of analyze_directory
not_a_directory_never(is_dir) == FALSE
not_a_directory(is_dir) == ~is_dir

\* filter_map(Result::ok) and the filter on file type and extension
is_json_file(e) == e.ok /\ e.json

\* fs::read_to_string(..).ok().and_then(from_str(..).ok()).or_else(.. None)
read_json_file(file) ==
    IF is_some(file.content) THEN unwrap(file.content) ELSE None

\* every load task of par_iter has finished
some_loaded(l) == \E i \in 1..Len(l) : is_some(l[i])
all_loaded(l) == \A i \in 1..Len(l) : is_some(l[i])

\* filter_map(..).collect() of rayon: the Some results, in the order of
\* json_files
RECURSIVE collect_until_none(_)
collect_until_none(l) ==
    IF l = <<>> \/ is_none(l[1]) \/ is_none(unwrap(l[1])) THEN <<>>
    ELSE <<unwrap(unwrap(l[1]))>> \o collect_until_none(Tail(l))
RECURSIVE collect(_)
collect(l) ==
    IF l = <<>> THEN <<>>
    ELSE (IF is_some(l[1]) /\ is_some(unwrap(l[1])) THEN <<unwrap(unwrap(l[1]))>> ELSE <<>>)
           \o collect(Tail(l))

\* the table SelectFileCommand builds for the selected path
PathTable == << <<"Path", "path">> >>

\* The file system changes what the selected path is.
PathChanges ==
    /\ path_is_dir' = ~path_is_dir
    /\ UNCHANGED <<fvars, pc, root_is_dir, walked, json_files, loaded, arrived,
                   analysis, details, analysis_before>>

\* AnalyzeCommand::execute up to the call of analyze_directory: on a
\* directory details is cleared and the call is made, otherwise Ok(()).
AnalyzeExecute ==
    /\ pc = "idle"
    /\ IF path_is_dir
         THEN /\ details' = None
              /\ pc' = "called"
              /\ analysis_before' = analysis
         ELSE UNCHANGED <<details, pc, analysis_before>>
    /\ UNCHANGED <<fvars, path_is_dir, root_is_dir, walked, json_files, loaded,
                   arrived, analysis>>

\* SelectFileCommand::execute: on a path that is no directory, details
\* becomes the table of the path.
SelectFileExecute ==
    /\ pc = "idle"
    /\ details' = IF ~path_is_dir THEN Some(PathTable) ELSE details
    /\ UNCHANGED <<fvars, path_is_dir, pc, root_is_dir, walked, json_files,
                   loaded, arrived, analysis, analysis_before>>

\* analyze_directory, the precondition fails: Err, which execute returns.
AnalyzeNotADirectory ==
    /\ pc = "called"
    /\ not_a_directory(path_is_dir)
    /\ root_is_dir' = Some(path_is_dir)
    /\ pc' = "failed"
    /\ UNCHANGED <<fvars, path_is_dir, walked, json_files, loaded, arrived,
                   analysis, details, analysis_before>>

\* analyze_directory, the walk: json_files is collected and one load task
\* per file is handed to the pool.
AnalyzeWalkOf(W) ==
    \E w \in W :
        /\ pc = "called"
        /\ ~not_a_directory(path_is_dir)
        /\ root_is_dir' = Some(path_is_dir)
        /\ walked' = w
        /\ json_files' = SelectSeq(w, is_json_file)
        /\ loaded' = [i \in 1..Len(json_files') |-> None]
        /\ arrived' = <<>>
        /\ pc' = "loading"
        /\ UNCHANGED <<fvars, path_is_dir, analysis, details, analysis_before>>

\* One load task finishes; the tasks finish in any order.
LoadTask ==
    \E i \in 1..Len(json_files) :
        /\ pc = "loading"
        /\ is_none(loaded[i])
        /\ loaded' = [loaded EXCEPT ![i] = Some(read_json_file(json_files[i]))]
        /\ arrived' = Append(arrived, i)
        /\ UNCHANGED <<fvars, path_is_dir, pc, root_is_dir, walked, json_files,
                       analysis, details, analysis_before>>

\* collect() returns, the data is summarized and the table is stored by
\* execute, which returns Ok(()).
CollectAndAccumulate ==
    /\ pc = "loading"
    /\ all_loaded(loaded)
    /\ folded' = collect(loaded)
    /\ summary' = summarize_from(summary, folded')
    /\ analysis' = Some(create_summary_table(summary'))
    /\ pc' = "idle"
    /\ UNCHANGED <<path_is_dir, root_is_dir, walked, json_files, loaded, arrived,
                   details, analysis_before>>
CollectAndSummarize ==
    /\ pc = "loading"
    /\ all_loaded(loaded)
    /\ folded' = collect(loaded)
    /\ summary' = summarize(folded')
    /\ analysis' = Some(create_summary_table(summary'))
    /\ pc' = "idle"
    /\ UNCHANGED <<path_is_dir, root_is_dir, walked, json_files, loaded, arrived,
                   details, analysis_before>>

AnalyzeWalk == AnalyzeWalkOf(Walks)

InitAnalyze ==
    /\ folded = <<>>
    /\ summary = MetricsSummary_default
    /\ path_is_dir \in BOOLEAN
    /\ NoCommand
    /\ NoApp

NextAnalyze ==
    \/ PathChanges /\ UNCHANGED appvars
    \/ AnalyzeExecute /\ UNCHANGED appvars
    \/ SelectFileExecute /\ UNCHANGED appvars
    \/ AnalyzeNotADirectory /\ UNCHANGED appvars
    \/ AnalyzeWalk /\ UNCHANGED appvars
    \/ LoadTask /\ UNCHANGED appvars
    \/ CollectAndSummarize /\ UNCHANGED appvars

SpecAnalyze == InitAnalyze /\ [][NextAnalyze]_vars

---------------------------------------------------------------------------
\* src/main.rs, src/navigator.rs and src/ui.rs: main, run_app, the
\* navigator and the terminal.
\*
\* app_pc is the position of main: "main" (start), "navigator"
\* (FileNavigator::new), "ui" (TerminalUI::new), "draw", "poll", "read" (the
\* three calls of one turn of the loop), "analyze_cmd" and "select_cmd" (the
\* command chosen on Enter is about to execute), "in_call" (inside
\* analyze_directory), "cleanup" (the loop was left), "exited".  navigator is
\* the FileNavigator once built, raw_mode and alternate_screen the terminal
\* modes, quit whether the loop was left through 'q', cleanup_ran whether
\* ui.cleanup() was called, error the place of the error main reported before
\* exit(1).  A path is a number; path_is_dir is the answer of is_dir for the
\* path selected now.

MaxEntries == 2

Paths == 1..MaxEntries

\* entries.sort()
RECURSIVE sort(_)
sort(q) ==
    IF q = <<>> THEN <<>>
    ELSE LET m == CHOOSE i \in 1..Len(q) : \A j \in 1..Len(q) : q[i] <= q[j]
         IN  <<q[m]>> \o sort(SubSeq(q, 1, m - 1) \o SubSeq(q, m + 1, Len(q)))

\* what read_dir can yield: the paths of a directory, in any order
ReadDirs == {q \in BoundedSeq(Paths, MaxEntries) : \A i, j \in 1..Len(q) : q[i] = q[j] => i = j}

FileNavigator_new(read_dir) == [entries |-> sort(read_dir), selected_index |-> 0]

saturating_sub(a, b) == IF a < b THEN 0 ELSE a - b

next_unguarded(self) == [self EXCEPT !.selected_index = self.selected_index + 1]
next(self) ==
    IF self.selected_index < saturating_sub(Len(self.entries), 1)
      THEN [self EXCEPT !.selected_index = self.selected_index + 1]
      ELSE self

previous(self) ==
    IF self.selected_index > 0
      THEN [self EXCEPT !.selected_index = self.selected_index - 1]
      ELSE self

\* entries.get(selected_index), the index counted from 0
selected(self) ==
    IF self.selected_index < Len(self.entries)
      THEN Some(self.entries[self.selected_index + 1])
      ELSE None

\* what the directory walks of the application's runs yield
AppWalks == {<<>>, <<Malformed, ValidA>>}

\* run_app returns Err from place and main exits with status 1; raw and alt
\* are the terminal modes at that moment.
ReturnErrRestoring(place, raw, alt) ==
    /\ app_pc' = "exited"
    /\ error' = Some(place)
    /\ raw_mode' = FALSE
    /\ alternate_screen' = FALSE
    /\ cleanup_ran' = TRUE
ReturnErr(place, raw, alt) ==
    /\ app_pc' = "exited"
    /\ error' = Some(place)
    /\ raw_mode' = raw
    /\ alternate_screen' = alt
    /\ cleanup_ran' = cleanup_ran

\* one turn of the loop goes on with the next call
Goto(place) ==
    /\ app_pc' = place
    /\ UNCHANGED <<raw_mode, alternate_screen, quit, cleanup_ran, error>>

\* main: the path does not exist, exit(1); otherwise run_app is called.
Main ==
    \E exists \in BOOLEAN :
        /\ app_pc = "main"
        /\ IF exists
             THEN Goto("navigator")
             ELSE /\ ReturnErr("path", raw_mode, alternate_screen)
                  /\ UNCHANGED quit
        /\ UNCHANGED <<fvars, avars, navigator>>

\* FileNavigator::new: read_dir fails, or the entries are sorted and the
\* first is selected.
NavigatorNew ==
    \E read_dir \in ReadDirs :
        /\ app_pc = "navigator"
        /\ navigator' = Some(FileNavigator_new(read_dir))
        /\ Goto("ui")
        /\ UNCHANGED <<fvars, avars>>

NavigatorFails ==
    /\ app_pc = "navigator"
    /\ ReturnErr("navigator", raw_mode, alternate_screen)
    /\ UNCHANGED <<fvars, avars, navigator, quit>>

\* TerminalUI::new: raw mode, alternate screen, Terminal::new.
TerminalNew ==
    /\ app_pc = "ui"
    /\ raw_mode' = TRUE
    /\ alternate_screen' = TRUE
    /\ app_pc' = "draw"
    /\ UNCHANGED <<fvars, avars, navigator, quit, cleanup_ran, error>>

\* TerminalUI::new fails at its first, second or third call.
TerminalNewFails ==
    \E step \in 1..3 :
        /\ app_pc = "ui"
        /\ ReturnErr("ui", step > 1, step > 2)
        /\ UNCHANGED <<fvars, avars, navigator, quit>>

Draw ==
    /\ app_pc = "draw"
    /\ Goto("poll")
    /\ UNCHANGED <<fvars, avars, navigator>>

DrawFails ==
    /\ app_pc = "draw"
    /\ ReturnErr("draw", raw_mode, alternate_screen)
    /\ UNCHANGED <<fvars, avars, navigator, quit>>

\* event::poll: an event is ready or the 100 ms passed.
Poll ==
    \E ready \in BOOLEAN :
        /\ app_pc = "poll"
        /\ Goto(IF ready THEN "read" ELSE "draw")
        /\ UNCHANGED <<fvars, avars, navigator>>

PollFails ==
    /\ app_pc = "poll"
    /\ ReturnErr("poll", raw_mode, alternate_screen)
    /\ UNCHANGED <<fvars, avars, navigator, quit>>

ReadFails ==
    /\ app_pc = "read"
    /\ ReturnErr("read", raw_mode, alternate_screen)
    /\ UNCHANGED <<fvars, avars, navigator, quit>>

\* event::read yields an event that is no key, or a key without a match arm.
OtherEvent ==
    /\ app_pc = "read"
    /\ Goto("draw")
    /\ UNCHANGED <<fvars, avars, navigator>>

KeyQuit ==
    /\ app_pc = "read"
    /\ quit' = TRUE
    /\ app_pc' = "cleanup"
    /\ UNCHANGED <<fvars, avars, navigator, raw_mode, alternate_screen,
                   cleanup_ran, error>>

KeyDown ==
    /\ app_pc = "read"
    /\ navigator' = Some(next(unwrap(navigator)))
    /\ Goto("draw")
    /\ UNCHANGED <<fvars, avars>>

KeyUp ==
    /\ app_pc = "read"
    /\ navigator' = Some(previous(unwrap(navigator)))
    /\ Goto("draw")
    /\ UNCHANGED <<fvars, avars>>

KeyEsc ==
    /\ app_pc = "read"
    /\ details' = None
    /\ Goto("draw")
    /\ UNCHANGED <<fvars, navigator, path_is_dir, pc, root_is_dir, walked,
                   json_files, loaded, arrived, analysis, analysis_before>>

\* Enter: with a path selected the command is chosen by is_dir.
KeyEnter ==
    /\ app_pc = "read"
    /\ Goto(IF is_none(selected(unwrap(navigator))) THEN "draw"
            ELSE IF path_is_dir THEN "analyze_cmd" ELSE "select_cmd")
    /\ UNCHANGED <<fvars, avars, navigator>>

AppAnalyzeExecute ==
    /\ app_pc = "analyze_cmd"
    /\ AnalyzeExecute
    /\ Goto(IF path_is_dir THEN "in_call" ELSE "draw")
    /\ UNCHANGED navigator

AppSelectFileExecute ==
    /\ app_pc = "select_cmd"
    /\ SelectFileExecute
    /\ Goto("draw")
    /\ UNCHANGED navigator

\* The Err of analyze_directory passes through execute and run_app by ?,
\* and main exits with status 1.
AppAnalyzeNotADirectory ==
    /\ app_pc = "in_call"
    /\ AnalyzeNotADirectory
    /\ ReturnErr("execute", raw_mode, alternate_screen)
    /\ UNCHANGED <<navigator, quit>>

AppAnalyzeWalk ==
    /\ app_pc = "in_call"
    /\ AnalyzeWalkOf(AppWalks)
    /\ UNCHANGED appvars

AppLoadTask ==
    /\ app_pc = "in_call"
    /\ LoadTask
    /\ UNCHANGED appvars

AppCollectAndSummarize ==
    /\ app_pc = "in_call"
    /\ CollectAndSummarize
    /\ Goto("draw")
    /\ UNCHANGED navigator

\* ui.cleanup() runs to its end and main returns.
Cleanup ==
    /\ app_pc = "cleanup"
    /\ cleanup_ran' = TRUE
    /\ raw_mode' = FALSE
    /\ alternate_screen' = FALSE
    /\ app_pc' = "exited"
    /\ UNCHANGED <<fvars, avars, navigator, quit, error>>

\* ui.cleanup() fails at its first, second or third call.
CleanupFails ==
    \E step \in 1..3 :
        /\ app_pc = "cleanup"
        /\ cleanup_ran' = TRUE
        /\ raw_mode' = (step = 1 /\ raw_mode)
        /\ alternate_screen' = (step <= 2 /\ alternate_screen)
        /\ app_pc' = "exited"
        /\ error' = Some("cleanup")
        /\ UNCHANGED <<fvars, avars, navigator, quit>>

InitApp ==
    /\ folded = <<>>
    /\ summary = MetricsSummary_default
    /\ path_is_dir \in BOOLEAN
    /\ NoCommand
    /\ app_pc = "main"
    /\ navigator = None
    /\ raw_mode = FALSE
    /\ alternate_screen = FALSE
    /\ quit = FALSE
    /\ cleanup_ran = FALSE
    /\ error = None

NextApp ==
    \/ PathChanges /\ app_pc # "exited" /\ UNCHANGED appvars
    \/ Main
    \/ NavigatorNew
    \/ NavigatorFails
    \/ TerminalNew
    \/ TerminalNewFails
    \/ Draw
    \/ DrawFails
    \/ Poll
    \/ PollFails
    \/ ReadFails
    \/ OtherEvent
    \/ KeyQuit
    \/ KeyDown
    \/ KeyUp
    \/ KeyEsc
    \/ KeyEnter
    \/ AppAnalyzeExecute
    \/ AppSelectFileExecute
    \/ AppAnalyzeNotADirectory
    \/ AppAnalyzeWalk
    \/ AppLoadTask
    \/ AppCollectAndSummarize
    \/ Cleanup
    \/ CleanupFails

SpecApp == InitApp /\ [][NextApp]_vars

---------------------------------------------------------------------------
\* Vocabulary of the properties.

Categories ==
    {"nargs", "nexits", "cognitive", "cyclomatic", "halstead", "loc", "nom", "mi", "abc"}
BasicCategories == {"nexits", "cognitive", "cyclomatic"}

\* d supplies category C: its metrics are present and hold a value for C
Supplies(d, C) == is_some(d.metrics) /\ is_some(unwrap(d.metrics)[C])
Value(d, C) == unwrap(unwrap(d.metrics)[C])

\* the positions of the folded reports that supplied C
Suppliers(C) == {i \in 1..Len(folded) : Supplies(folded[i], C)}

\* the count of category C in summary s, 0 while the category is absent
Count(s, C) == IF is_some(s[C]) THEN unwrap(s[C]).count ELSE 0

Front(q) == SubSeq(q, 1, Len(q) - 1)
Last(q) == q[Len(q)]

\* the fields of each kind, by the names of the summary types
AdditiveFields(C) ==
    CASE C = "nargs" -> {"total_functions", "total_closures", "total"}
      [] C \in BasicCategories -> {"sum"}
      [] C = "halstead" -> {"n1", "n2", "volume", "purity_ratio", "bugs", "difficulty",
                            "estimated_program_lenght", "vocabulary", "level"}
      [] C = "loc" -> {"sloc", "ploc", "lloc", "cloc", "blank"}
      [] C = "nom" -> {"functions", "closures", "total"}
      [] C = "mi" -> {"mi_original", "mi_sei", "mi_visual_studio"}
      [] C = "abc" -> {"assignments", "branches", "conditions"}
MeanFields(C) ==
    CASE C = "nargs" -> {"average_functions", "average_closures", "average"}
      [] C \in BasicCategories -> {"average"}
      [] C = "loc" -> {"sloc_average", "ploc_average", "lloc_average",
                       "cloc_average", "blank_average"}
      [] OTHER -> {}
MinFields(C) ==
    CASE C = "nargs" -> {"functions_min", "closures_min"}
      [] C \in BasicCategories -> {"min"}
      [] C = "loc" -> {"sloc_min", "ploc_min", "lloc_min", "cloc_min", "blank_min"}
      [] OTHER -> {}
MaxFields(C) ==
    CASE C = "nargs" -> {"functions_max", "closures_max"}
      [] C \in BasicCategories -> {"max"}
      [] C = "loc" -> {"sloc_max", "ploc_max", "lloc_max", "cloc_max", "blank_max"}
      [] OTHER -> {}
Fields(C) == AdditiveFields(C) \cup MeanFields(C) \cup MinFields(C) \cup MaxFields(C)

\* the report field a summary field accumulates
MetricField(f) ==
    IF f = "estimated_program_lenght" THEN "estimated_program_length" ELSE f

\* field f of the accumulator acc of category C, as a fraction
FieldValue(C, f, acc) ==
    IF C = "nargs"
      THEN IF f \in MeanFields(C) THEN unwrap(acc[f]) ELSE Frac(unwrap(acc[f]), 1)
      ELSE Frac(acc[f], 1)

\* field f of category C in the i-th folded report (an Option)
Reported(C, f, i) == Value(folded[i], C)[MetricField(f)]

\* the sum of field f over the first i folded reports that supplied C,
\* a missing field counting 0
RECURSIVE FieldSum(_, _, _)
FieldSum(C, f, i) ==
    IF i = 0 THEN 0
    ELSE FieldSum(C, f, i - 1)
         + (IF Supplies(folded[i], C) THEN unwrap_or(Reported(C, f, i), 0) ELSE 0)

\* every report that supplied C supplied its field f, and there is one
AllSupply(C, f) ==
    /\ Suppliers(C) # {}
    /\ \A i \in Suppliers(C) : is_some(Reported(C, f, i))

ReportedValues(C, f) == {unwrap(Reported(C, f, i)) : i \in Suppliers(C)}
Minimum(S) == CHOOSE x \in S : \A y \in S : x <= y
Maximum(S) == CHOOSE x \in S : \A y \in S : x >= y

\* json_data in another order
Permuted(q, p) == [i \in 1..Len(q) |-> q[p[i]]]

\* The accumulator of the state machine is the value summarize returns for
\* the prefix folded.
SummaryIsFold == summary = summarize(folded)

---------------------------------------------------------------------------
\* C1.  Order independence: folding the reports in any permutation yields
\* the same summary, every field of every category equal.
C1_OrderIndependence ==
    \A p \in Permutations(1..Len(folded)) :
        summarize(Permuted(folded, p)) = summary

\* C2.  Count invariant: for every category the accumulator's count is the
\* number of folded reports that supplied the category; the last folded
\* report raised it by exactly 1 if it supplied the category and left it
\* alone otherwise, so it never decreases.
C2_CountInvariant ==
    /\ \A C \in Categories : Count(summary, C) = Cardinality(Suppliers(C))
    /\ folded # <<>> =>
         LET prior == summarize(Front(folded))
         IN  \A C \in Categories :
               /\ Count(summary, C) >= Count(prior, C)
               /\ Count(summary, C) =
                    Count(prior, C) + (IF Supplies(Last(folded), C) THEN 1 ELSE 0)

\* a report that supplied loc and not nargs was folded after reports that
\* supplied nargs: the counts differ
C2_Witness ==
    /\ Len(folded) = 3
    /\ Count(summary, "nargs") = 2
    /\ Count(summary, "loc") = 1
    /\ Supplies(Last(folded), "loc")
    /\ ~Supplies(Last(folded), "nargs")

\* C3.  Frame on absent input: folding a report whose value for category C
\* is absent (or whose metrics are absent) leaves C's accumulator as it
\* was, absent or present, whatever the report supplies elsewhere.
C3_FrameOnAbsent ==
    folded # <<>> =>
      LET prior == summarize(Front(folded))
      IN  \A C \in Categories :
            ~Supplies(Last(folded), C) => summary[C] = prior[C]

\* the last report supplied loc and no nargs while nargs was accumulated
\* and cyclomatic was still absent
C3_Witness ==
    /\ Len(folded) >= 2
    /\ Supplies(Last(folded), "loc")
    /\ ~Supplies(Last(folded), "nargs")
    /\ ~Supplies(Last(folded), "cyclomatic")
    /\ is_some(summary.nargs)
    /\ is_none(summary.cyclomatic)

\* C4.  Presence: a category's summary is absent exactly when no folded
\* report supplied the category, and a summary present before the last
\* report is present after it.
C4_Presence ==
    /\ \A C \in Categories : is_none(summary[C]) <=> Suppliers(C) = {}
    /\ folded # <<>> =>
         LET prior == summarize(Front(folded))
         IN  \A C \in Categories : is_some(prior[C]) => is_some(summary[C])

\* loc was supplied once and then two reports without loc were folded, one
\* of them without metrics; loc is still present and nargs still absent
C4_Witness ==
    /\ Len(folded) = 3
    /\ Supplies(folded[1], "loc")
    /\ is_none(folded[2].metrics)
    /\ is_some(folded[3].metrics) /\ ~Supplies(folded[3], "loc")
    /\ is_some(summary.loc)
    /\ is_none(summary.nargs)

---------------------------------------------------------------------------
\* C5.  Single-report exactness: when exactly one folded report supplied
\* category C, C's summary has count 1 and every field the report supplied
\* has the report's value.
C5_SingleReportExact ==
    \A C \in Categories :
        Cardinality(Suppliers(C)) = 1 =>
          LET i == CHOOSE j \in Suppliers(C) : TRUE
          IN  /\ is_some(summary[C])
              /\ unwrap(summary[C]).count = 1
              /\ \A f \in Fields(C) :
                    is_some(Reported(C, f, i)) =>
                      FieldValue(C, f, unwrap(summary[C])) = Frac(unwrap(Reported(C, f, i)), 1)

\* C6.  Additive fields: every additive field of every present category is
\* the sum of the field over the reports that supplied the category, a
\* missing field counting 0.
C6_AdditiveFields ==
    \A C \in Categories :
        is_some(summary[C]) =>
          \A f \in AdditiveFields(C) :
              FieldValue(C, f, unwrap(summary[C])) = Frac(FieldSum(C, f, Len(folded)), 1)

\* C7.  Mean equivalence: a mean field that all n reports supplying the
\* category supplied is the sum of their values divided by n.
C7_MeanEquivalence ==
    \A C \in Categories :
        \A f \in MeanFields(C) :
            AllSupply(C, f) =>
              FieldValue(C, f, unwrap(summary[C]))
                = Frac(FieldSum(C, f, Len(folded)), Cardinality(Suppliers(C)))

\* C8.  Extremum correctness: a min (max) field that all reports supplying
\* the category supplied is the least (greatest) of their values.
C8_ExtremumCorrect ==
    \A C \in Categories :
        /\ \A f \in MinFields(C) :
              AllSupply(C, f) =>
                FieldValue(C, f, unwrap(summary[C])) = Frac(Minimum(ReportedValues(C, f)), 1)
        /\ \A f \in MaxFields(C) :
              AllSupply(C, f) =>
                FieldValue(C, f, unwrap(summary[C])) = Frac(Maximum(ReportedValues(C, f)), 1)

\* C9.  Missing extremum is neutral: folding a report that supplies
\* category C and omits a min (max) field leaves the running min (max) of
\* an accumulator that was present as it was, in nargs, Basic and LOC alike.
C9_MissingExtremumNeutral ==
    folded # <<>> =>
      LET prior == summarize(Front(folded))
          d == Last(folded)
      IN  \A C \in Categories :
            (Supplies(d, C) /\ is_some(prior[C])) =>
              \A f \in MinFields(C) \cup MaxFields(C) :
                  is_none(Value(d, C)[MetricField(f)]) =>
                    unwrap(summary[C])[f] = unwrap(prior[C])[f]

\* C10.  Spec example: once the three reports with loc.sloc = 10, 20, 30
\* (every other field absent) are folded, loc.sloc = 60 and loc.count = 3,
\* and they stay so while the reports folded after them have no loc.
ExampleFolded ==
    /\ Len(folded) >= 3
    /\ \A i \in 1..3 : Supplies(folded[i], "loc")
    /\ {Value(folded[i], "loc") : i \in 1..3} = {LocSloc(10), LocSloc(20), LocSloc(30)}
    /\ \A i \in 4..Len(folded) : ~Supplies(folded[i], "loc")

C10_SpecExample ==
    ExampleFolded =>
      /\ is_some(summary.loc)
      /\ unwrap(summary.loc).sloc = 60
      /\ unwrap(summary.loc).count = 3

\* a fourth report, with metrics and without loc, was folded after the three
C10_Witness ==
    /\ ExampleFolded
    /\ Len(folded) = 4
    /\ Supplies(folded[4], "nargs")
    /\ unwrap(summary.loc).sloc = 60

---------------------------------------------------------------------------
\* C19.  nargs mean with missing fields: while nargs is present each of its
\* mean fields is present and equals the sum of the supplied values of the
\* field divided by the nargs count, the number of reports that supplied the
\* nargs category: a report that supplies nargs and omits the field adds 0
\* to the sum and 1 to the divisor.
C19_NargsMeanDivisor ==
    is_some(summary.nargs) =>
      \A f \in MeanFields("nargs") :
          /\ is_some(unwrap(summary.nargs)[f])
          /\ unwrap(unwrap(summary.nargs)[f])
               = Frac(FieldSum("nargs", f, Len(folded)), unwrap(summary.nargs).count)

\* two reports supplied nargs, one with average_functions = 2 and one
\* without it: the mean is 2 / 2 = 1; and no report supplied it in a state
\* TLC also reaches (Nargs3 alone), covered by the formula
C19_Witness ==
    /\ Cardinality(Suppliers("nargs")) = 2
    /\ \E i, j \in Suppliers("nargs") :
          /\ Reported("nargs", "average_functions", i) = Some(2)
          /\ is_none(Reported("nargs", "average_functions", j))
    /\ unwrap(summary.nargs).average_functions = Some(Frac(1, 1))

---------------------------------------------------------------------------
\* C16.  Presentation projection: the rows of create_summary_table hold one
\* header row per category, in the fixed order of the nine categories; the
\* header of an absent category carries "N/A" and no field row follows it;
\* the header of a present category is followed by one labelled row for
\* every field of its accumulator, the count among them.
CategoryOrder ==
    <<"nargs", "nexits", "cognitive", "cyclomatic", "halstead", "loc", "nom", "mi", "abc">>
Title(C) ==
    CASE C = "nargs" -> "NArgs"
      [] C = "nexits" -> "NExits"
      [] C = "cognitive" -> "Cognitive Complexity"
      [] C = "cyclomatic" -> "Cyclomatic Complexity"
      [] C = "halstead" -> "Halstead Metrics"
      [] C = "loc" -> "Lines of Code"
      [] C = "nom" -> "Number of Methods"
      [] C = "mi" -> "Maintainability Index"
      [] C = "abc" -> "ABC Complexity"
Titles == {Title(C) : C \in Categories}

\* the positions of the header rows, and the position of the k-th of them
HeaderRows(rows) == {i \in 1..Len(rows) : rows[i][1] \in Titles}
HeaderRow(rows, k) ==
    CHOOSE i \in HeaderRows(rows) : Cardinality({j \in HeaderRows(rows) : j < i}) = k - 1
\* the rows between the k-th header and the next one
FieldRows(rows, k) ==
    LET following == IF k = Len(CategoryOrder) THEN Len(rows) + 1 ELSE HeaderRow(rows, k + 1)
    IN  SubSeq(rows, HeaderRow(rows, k) + 1, following - 1)

C16_PresentationProjection ==
    LET rows == create_summary_table(summary)
    IN  /\ Cardinality(HeaderRows(rows)) = Len(CategoryOrder)
        /\ \A k \in 1..Len(CategoryOrder) :
              LET C == CategoryOrder[k]
                  fields == FieldRows(rows, k)
              IN  /\ rows[HeaderRow(rows, k)][1] = Title(C)
                  /\ is_none(summary[C]) =>
                       /\ rows[HeaderRow(rows, k)][2] = "N/A"
                       /\ fields = <<>>
                  /\ is_some(summary[C]) =>
                       /\ rows[HeaderRow(rows, k)][2] = ""
                       /\ Len(fields) = Cardinality(DOMAIN unwrap(summary[C]))
                       /\ \E i \in 1..Len(fields) :
                             fields[i] = <<"Count", ToString(unwrap(summary[C]).count)>>

---------------------------------------------------------------------------
\* Vocabulary of the properties of analyze_directory.

\* the latest analyze_directory call has returned Ok and execute has stored
\* its table
Completed == pc = "idle" /\ root_is_dir = Some(TRUE)

\* the summary of a run over data that starts from the empty summary
FreshSummary(data) == summarize_from(MetricsSummary_default, data)

\* the reports of the entries of a walk that are json files, can be read and
\* decode to a JsonData, in the order of the walk
RECURSIVE ValidReports(_)
ValidReports(w) ==
    IF w = <<>> THEN <<>>
    ELSE (IF /\ w[1].ok
             /\ w[1].json
             /\ w[1].content # None
             /\ w[1].content[1] # None
            THEN <<w[1].content[1][1]>> ELSE <<>>)
           \o ValidReports(Tail(w))

AllAbsent(s) == \A C \in Categories : is_none(s[C])

ReportA == ValidReports(<<ValidA>>)[1]
ReportB == ValidReports(<<ValidB>>)[1]

\* C11.  Soft-failure isolation: a file that cannot be read or decoded is
\* left out and never makes the call fail; when analyze_directory has
\* returned, the stored table is the table of the summary of exactly the
\* reports that were read and decoded; without any such report every
\* category is absent and the call still succeeds.
C11_SoftFailureIsolation ==
    /\ root_is_dir = Some(TRUE) => pc # "failed"
    /\ Completed =>
         /\ folded = ValidReports(walked)
         /\ summary = FreshSummary(ValidReports(walked))
         /\ analysis = Some(create_summary_table(FreshSummary(ValidReports(walked))))
         /\ ValidReports(walked) = <<>> => AllAbsent(summary)

\* A run over one malformed and one valid file has stored the table of the
\* valid file alone.
C11_Witness ==
    /\ Completed
    /\ walked = <<Malformed, ValidA>>
    /\ all_loaded(loaded)
    /\ analysis = Some(create_summary_table(FreshSummary(<<ReportA>>)))

\* C12.  analyze_directory returns an error exactly when is_dir answered
\* false for the root inside the call; when it answered true the call does
\* not fail and can always go on to its return, whatever the walk yielded
\* and whatever the load tasks returned.
C12_ErrorIffNotADirectory ==
    /\ (pc = "failed") <=> (root_is_dir = Some(FALSE))
    /\ pc = "loading" =>
         /\ root_is_dir = Some(TRUE)
         /\ (ENABLED LoadTask) \/ (ENABLED CollectAndSummarize)

\* A call fails on a path that stopped being a directory, after an earlier
\* call over an unreadable and a malformed file had succeeded.
C12_Witness ==
    /\ pc = "failed"
    /\ root_is_dir = Some(FALSE)
    /\ walked = <<Unreadable, Malformed>>
    /\ is_some(analysis)

\* C14.  Load/fold barrier: while load tasks run the stored analysis is the
\* one from before the call; when the call has returned every load task had
\* finished, and the folded data is the reports of json_files that were
\* parsed, in the order of json_files, whatever the order in which the
\* tasks finished.
ParsedOf(file) == ValidReports(<<[file EXCEPT !.ok = TRUE, !.json = TRUE]>>)
RECURSIVE ParsedReports(_)
ParsedReports(files) ==
    IF files = <<>> THEN <<>> ELSE ParsedOf(files[1]) \o ParsedReports(Tail(files))

C14_LoadFoldBarrier ==
    /\ pc = "loading" => analysis = analysis_before
    /\ Completed =>
         /\ Len(arrived) = Len(json_files)
         /\ {arrived[i] : i \in 1..Len(arrived)} = 1..Len(json_files)
         /\ \A i \in 1..Len(json_files) : loaded[i] = Some(read_json_file(json_files[i]))
         /\ folded = ParsedReports(json_files)
         /\ summary = FreshSummary(ParsedReports(json_files))

\* The task of the second file finished first, over two reports whose fold
\* depends on the order.
C14_Witness ==
    /\ Completed
    /\ json_files = <<ValidA, ValidB>>
    /\ arrived = <<2, 1>>
    /\ summary = FreshSummary(<<ReportA, ReportB>>)
    /\ FreshSummary(<<ReportA, ReportB>>) # FreshSummary(<<ReportB, ReportA>>)

\* C15.  No state across runs: when a run has returned, its summary is the
\* fold of that run's data from the empty summary and the stored analysis
\* is the table of that summary, whatever analysis was stored before.
C15_NoStateAcrossRuns ==
    Completed =>
        /\ summary = FreshSummary(folded)
        /\ analysis = Some(create_summary_table(FreshSummary(folded)))

\* A run over one report has replaced the analysis of an earlier run over
\* another report.
C15_Witness ==
    /\ Completed
    /\ analysis_before = Some(create_summary_table(FreshSummary(<<ReportB>>)))
    /\ folded = <<ReportA>>
    /\ analysis = Some(create_summary_table(FreshSummary(<<ReportA>>)))
    /\ analysis # analysis_before

---------------------------------------------------------------------------
\* C13.  Precondition failure does not stop the application: when
\* analyze_directory has failed because the selected path is no directory,
\* the event loop goes on: the process has not exited and main has reported
\* no error.
C13_PreconditionFailureKeepsRunning ==
    pc = "failed" => (app_pc # "exited" /\ error = None)

\* C17.  Navigator bounds: once the navigator is built, selected_index is 0
\* when entries is empty and below entries.len() otherwise; selected() is
\* None only when entries is empty; next() at the last entry and previous()
\* at the first entry change nothing, and either call keeps entries and
\* moves the index by at most 1.
C17_NavigatorBounds ==
    is_some(navigator) =>
        LET self == unwrap(navigator)
            len == Len(self.entries)
            index == self.selected_index
        IN  /\ len = 0 => index = 0
            /\ len > 0 => (0 <= index /\ index < len)
            /\ is_none(selected(self)) <=> len = 0
            /\ (len = 0 \/ index = len - 1) => next(self) = self
            /\ index = 0 => previous(self) = self
            /\ \A moved \in {next(self), previous(self)} :
                  /\ moved.entries = self.entries
                  /\ Abs(moved.selected_index - index) <= 1

\* next() has moved the selection to the last of two entries.
C17_Witness ==
    /\ is_some(navigator)
    /\ unwrap(navigator).entries = <<1, 2>>
    /\ unwrap(navigator).selected_index = 1
    /\ selected(unwrap(navigator)) = Some(2)
    /\ app_pc = "read"

\* C18.  Terminal teardown: ui.cleanup() is called only after the loop was
\* left through 'q', and it has been called at every exit that follows 'q';
\* when the process exits on an error of draw, poll, read or a command's
\* execute, cleanup was not called and the terminal is still in raw mode
\* and on the alternate screen.
LoopErrors == {Some("draw"), Some("poll"), Some("read"), Some("execute")}

C18_TerminalTeardown ==
    /\ cleanup_ran => quit
    /\ app_pc = "exited" => (cleanup_ran <=> quit)
    /\ (app_pc = "exited" /\ error \in LoopErrors) =>
         /\ ~cleanup_ran
         /\ raw_mode
         /\ alternate_screen

\* The process has exited on the error of a command, terminal not restored.
C18_Witness ==
    /\ app_pc = "exited"
    /\ error = Some("execute")
    /\ pc = "failed"
    /\ ~cleanup_ran
    /\ raw_mode
    /\ alternate_screen

====
